---------------------------- MODULE Spec2Model ----------------------------
(***************************************************************************)
(* Model of the GLM image-summary extension (src/src/index.ts and the      *)
(* utilities of utils.ts that src/README.md reproduces).                   *)
(*                                                                         *)
(* Text is a sequence of tokens: every token stands for a run of           *)
(* characters that the code never splits, whitespace tokens are " " and    *)
(* "\n".  A template string is the concatenation of its pieces.            *)
(***************************************************************************)
EXTENDS Integers, Sequences, FiniteSets, TLC

(***************************************************************************)
(* Bounds of the model.                                                    *)
(***************************************************************************)
MaxStdoutChunks == 2

MaxStderrChunks == 1

(***************************************************************************)
(* Configuration constants (utils.ts).                                     *)
(***************************************************************************)
VISION_PROVIDER == "zai"

VISION_MODEL == "glm-4.6v"

NON_VISION_MODELS == {"glm-4.6", "glm-4.7", "glm-4.7-flash"}

SUPPORTED_IMAGE_EXTENSIONS == {"jpg", "jpeg", "png", "gif", "webp"}

ANALYSIS_PROMPT == "You are analyzing an image. ..."

\* The value of an absent optional (undefined).
Absent == "undefined"

(***************************************************************************)
(* Text helpers.                                                           *)
(***************************************************************************)
Whitespace == {" ", "\n"}

RECURSIVE TrimStart(_)
TrimStart(s) ==
    IF s # <<>> /\ Head(s) \in Whitespace THEN TrimStart(Tail(s)) ELSE s

RECURSIVE TrimEnd(_)
TrimEnd(s) ==
    IF s # <<>> /\ s[Len(s)] \in Whitespace
    THEN TrimEnd(SubSeq(s, 1, Len(s) - 1))
    ELSE s

\* String.prototype.trim
Trim(s) == TrimEnd(TrimStart(s))

\* Array.prototype.join over an array of texts
RECURSIVE Join(_, _)
Join(texts, sep) ==
    IF texts = <<>> THEN <<>>
    ELSE IF Len(texts) = 1 THEN texts[1]
    ELSE texts[1] \o sep \o Join(Tail(texts), sep)

\* String.prototype.toLowerCase on one token
ToLowerCase(tok) ==
    CASE tok \in {"PNG", "Png"} -> "png"
      [] tok \in {"JPG", "Jpg", "JpG"} -> "jpg"
      [] tok = "JPEG" -> "jpeg"
      [] tok = "TXT" -> "txt"
      [] OTHER -> tok

(***************************************************************************)
(* JSON.  A parsed value is a record: an object holds the fields the       *)
(* document states, a value that is no object (null, a number, an empty    *)
(* top-level array) holds only its kind.  The elements of messages and of  *)
(* content are objects or such scalars.  Stringify writes a value as JSON  *)
(* text (JSON.stringify); JSONParse reads JSON text token by token and     *)
(* fails on every text that is no document of this grammar.                *)
(***************************************************************************)
ParseError == [kind |-> "SyntaxError"]

JsonNull == [kind |-> "null"]

JsonNumber == [kind |-> "number"]

JsonArray == [kind |-> "array"]

Object(fields) == [k \in {"kind"} \cup DOMAIN fields |-> IF k = "kind" THEN "object" ELSE fields[k]]

Has(obj, field) == field \in DOMAIN obj

\* An element that is no object: null or a number
IsScalar(v) == Has(v, "kind")

StringifyScalar(v) == IF v.kind = "null" THEN <<"null">> ELSE <<"7">>

StringifyBlock(c) ==
    IF IsScalar(c) THEN StringifyScalar(c)
    ELSE <<"{\"type\":", c.type>>
         \o (IF Has(c, "text") THEN <<",\"text\":\"">> \o c.text \o <<"\"">> ELSE <<>>)
         \o <<"}">>

StringifyMessage(m) ==
    IF IsScalar(m) THEN StringifyScalar(m)
    ELSE <<"{\"role\":", m.role>>
         \o (IF Has(m, "content")
             THEN <<",\"content\":[">>
                  \o Join([k \in 1..Len(m.content) |-> StringifyBlock(m.content[k])], <<",">>)
                  \o <<"]">>
             ELSE <<>>)
         \o <<"}">>

Stringify(v) ==
    IF v.kind = "null" THEN <<"null">>
    ELSE IF v.kind = "number" THEN <<"7">>
    ELSE IF v.kind = "array" THEN <<"[", "]">>
    ELSE IF Has(v, "messages")
    THEN <<"{\"messages\":[">>
         \o Join([k \in 1..Len(v.messages) |-> StringifyMessage(v.messages[k])], <<",">>)
         \o <<"]}">>
    ELSE <<"{", "}">>

TextBlock(t) == [type |-> "text", text |-> t]

ImageBlock == [type |-> "image"]

Assistant(blocks) == [role |-> "assistant", content |-> blocks]

User(blocks) == [role |-> "user", content |-> blocks]

\* The tokens that are JSON punctuation or literals, not the text of a string
Structural ==
    { "{\"messages\":[", "]}", "{\"role\":", ",\"content\":[", "]", "{\"type\":",
      ",\"text\":\"", "\"", "}", "{", "[", ",", "null", "7" }

\* The element of a one-element set: Only({ e(x) : x \in {v} }) is e(v) with
\* v computed once, however often e uses it
Only(S) == CHOOSE x \in S : TRUE

Failed == [ok |-> FALSE, value |-> <<>>, rest |-> <<>>]

Parsed(v, rest) == [ok |-> TRUE, value |-> v, rest |-> rest]

From(toks, k) == SubSeq(toks, k, Len(toks))

\* The text of a string up to its closing quote
RECURSIVE ParsePayload(_, _)
ParsePayload(toks, acc) ==
    IF toks = <<>> THEN Failed
    ELSE IF Head(toks) = "\"" THEN Parsed(acc, Tail(toks))
    ELSE IF Head(toks) \in Structural THEN Failed
    ELSE ParsePayload(Tail(toks), Append(acc, Head(toks)))

ParseBlock(toks) ==
    IF toks = <<>> THEN Failed
    ELSE IF Head(toks) = "null" THEN Parsed(JsonNull, Tail(toks))
    ELSE IF Head(toks) = "7" THEN Parsed(JsonNumber, Tail(toks))
    ELSE IF Len(toks) < 3 \/ Head(toks) # "{\"type\":" \/ toks[2] \in Structural THEN Failed
    ELSE IF toks[3] = "}" THEN Parsed([type |-> toks[2]], From(toks, 4))
    ELSE IF toks[3] # ",\"text\":\"" THEN Failed
    ELSE Only({ IF payload.ok /\ payload.rest # <<>> /\ Head(payload.rest) = "}"
                THEN Parsed([type |-> toks[2], text |-> payload.value], Tail(payload.rest))
                ELSE Failed
                : payload \in {ParsePayload(From(toks, 4), <<>>)} })

\* The elements after the first, up to the closing bracket
RECURSIVE ParseBlocksRest(_, _)
ParseBlocksRest(toks, acc) ==
    IF toks = <<>> THEN Failed
    ELSE IF Head(toks) = "]" THEN Parsed(acc, Tail(toks))
    ELSE IF Head(toks) # "," THEN Failed
    ELSE Only({ IF block.ok THEN ParseBlocksRest(block.rest, Append(acc, block.value))
                ELSE Failed
                : block \in {ParseBlock(Tail(toks))} })

ParseBlocks(toks) ==
    IF toks # <<>> /\ Head(toks) = "]" THEN Parsed(<<>>, Tail(toks))
    ELSE Only({ IF block.ok THEN ParseBlocksRest(block.rest, <<block.value>>) ELSE Failed
                : block \in {ParseBlock(toks)} })

ParseMessage(toks) ==
    IF toks = <<>> THEN Failed
    ELSE IF Head(toks) = "null" THEN Parsed(JsonNull, Tail(toks))
    ELSE IF Head(toks) = "7" THEN Parsed(JsonNumber, Tail(toks))
    ELSE IF Len(toks) < 3 \/ Head(toks) # "{\"role\":" \/ toks[2] \in Structural THEN Failed
    ELSE IF toks[3] = "}" THEN Parsed([role |-> toks[2]], From(toks, 4))
    ELSE IF toks[3] # ",\"content\":[" THEN Failed
    ELSE Only({ IF blocks.ok /\ blocks.rest # <<>> /\ Head(blocks.rest) = "}"
                THEN Parsed([role |-> toks[2], content |-> blocks.value], Tail(blocks.rest))
                ELSE Failed
                : blocks \in {ParseBlocks(From(toks, 4))} })

RECURSIVE ParseMessagesRest(_, _)
ParseMessagesRest(toks, acc) ==
    IF toks = <<>> THEN Failed
    ELSE IF Head(toks) = "]}" THEN Parsed(acc, Tail(toks))
    ELSE IF Head(toks) # "," THEN Failed
    ELSE Only({ IF message.ok
                THEN ParseMessagesRest(message.rest, Append(acc, message.value))
                ELSE Failed
                : message \in {ParseMessage(Tail(toks))} })

ParseMessages(toks) ==
    IF toks # <<>> /\ Head(toks) = "]}" THEN Parsed(<<>>, Tail(toks))
    ELSE Only({ IF message.ok THEN ParseMessagesRest(message.rest, <<message.value>>)
                ELSE Failed
                : message \in {ParseMessage(toks)} })

\* JSON.parse: whitespace around the document is ignored, nothing may follow it
ParseDocument(t) ==
    IF t = <<"null">> THEN JsonNull
    ELSE IF t = <<"7">> THEN JsonNumber
    ELSE IF t = <<"[", "]">> THEN JsonArray
    ELSE IF t = <<"{", "}">> THEN [kind |-> "object"]
    ELSE IF t = <<>> \/ Head(t) # "{\"messages\":[" THEN ParseError
    ELSE Only({ IF messages.ok /\ messages.rest = <<>>
                THEN Object([messages |-> messages.value])
                ELSE ParseError
                : messages \in {ParseMessages(Tail(t))} })

JSONParse(text) == Only({ ParseDocument(t) : t \in {Trim(text)} })

(***************************************************************************)
(* utils.ts                                                                *)
(***************************************************************************)
\* path.split(".").pop(): the text after the last "." (the whole path when
\* it has none; never undefined, split returns at least one piece).
RECURSIVE LastPiece(_)
LastPiece(path) ==
    IF path = <<>> THEN <<>>
    ELSE IF path[Len(path)] = "." THEN <<>>
    ELSE LastPiece(SubSeq(path, 1, Len(path) - 1)) \o <<path[Len(path)]>>

isImageFile(path) ==
    LET ext == [k \in 1..Len(LastPiece(path)) |-> ToLowerCase(LastPiece(path)[k])]
    IN \E e \in SUPPORTED_IMAGE_EXTENSIONS : ext = <<e>>

\* Mutant of needsVisionProxy: an absent model id is proxied.
needsVisionProxyAbsent(modelId) ==
    modelId = Absent \/ modelId \in NON_VISION_MODELS

needsVisionProxy(modelId) ==
    modelId # Absent /\ modelId \in NON_VISION_MODELS

\* Mutant of IsAssistant: a turn of any role is selected.
IsAssistantAnyRole(m) == ~IsScalar(m)

IsAssistant(m) == ~IsScalar(m) /\ m.role = "assistant"

\* Mutant of FindLastAssistant: the first assistant turn is selected.
FindFirstAssistant(messages) ==
    LET idx == {k \in 1..Len(messages) : IsAssistant(messages[k])}
    IN IF idx = {} THEN 0 ELSE CHOOSE k \in idx : \A j \in idx : k <= j

\* Array.prototype.findLast(m => m.role === "assistant"): the index of the
\* last such message, 0 when there is none (findLast returns undefined)
FindLastAssistant(messages) ==
    LET idx == {k \in 1..Len(messages) : IsAssistant(messages[k])}
    IN IF idx = {} THEN 0 ELSE CHOOSE k \in idx : \A j \in idx : j <= k

\* findLast walks down from the last message and reads m.role of each one
\* it visits: reading a property of null throws a TypeError
FindLastThrows(messages) ==
    \E k \in 1..Len(messages) :
        /\ k > FindLastAssistant(messages)
        /\ IsScalar(messages[k])
        /\ messages[k].kind = "null"

\* content.filter(c => c.type === "text")
RECURSIVE FilterText(_)
FilterText(content) ==
    IF content = <<>> THEN <<>>
    ELSE IF ~IsScalar(Head(content)) /\ Head(content).type = "text"
    THEN <<Head(content)>> \o FilterText(Tail(content))
    ELSE FilterText(Tail(content))

\* filter reads c.type of every element: a null element throws a TypeError
FilterThrows(content) ==
    \E k \in 1..Len(content) : IsScalar(content[k]) /\ content[k].kind = "null"

\* Mutant of TextOf: an absent payload is printed as it is.
TextOfUndefined(c) == IF Has(c, "text") THEN c.text ELSE <<"undefined">>

\* c.text ?? ""
TextOf(c) == IF Has(c, "text") THEN c.text ELSE <<>>

\* The body of the try block, json being what JSON.parse returned; every
\* throw inside it is caught and the raw output returned
ExtractFrom(json, output) ==
    IF json.kind = "SyntaxError" THEN output         \* JSON.parse throws
    ELSE IF json.kind = "null" THEN output             \* json.messages throws
    ELSE IF ~Has(json, "messages") THEN output
    ELSE IF FindLastThrows(json.messages) THEN output
    ELSE LET last == FindLastAssistant(json.messages)
         IN IF last = 0 THEN output
            ELSE IF ~Has(json.messages[last], "content") THEN output
            ELSE IF FilterThrows(json.messages[last].content) THEN output
            ELSE LET texts == FilterText(json.messages[last].content)
                 IN Join([k \in 1..Len(texts) |-> TextOf(texts[k])], <<"\n">>)

extractTextFromPiOutput(output) ==
    Only({ ExtractFrom(json, output) : json \in {JSONParse(output)} })

(***************************************************************************)
(* The host, the subprocess and the invocations.                           *)
(*                                                                         *)
(* An invocation is one call of the intercepted read tool by the host.     *)
(* Exit codes are written as the text the template string prints for       *)
(* them: "0", "1", "null" (killed by a signal) and "-2" (the errno that    *)
(* Node reports as the exit code of a process that failed to spawn).       *)
(***************************************************************************)
Invocations == {"read"}

ExitCodes == {"0", "1", "null"}

SpawnFailCode == "-2"

SpawnErrorMessage == <<"spawn pi ENOENT">>

AbortMessage == <<"Operation aborted">>

DocText == Stringify(Object([messages |-> <<Assistant(<<TextBlock(<<"chart">>)>>)>>]))

StdoutChunks ==
    { <<" ", "oops", "\n">>, SubSeq(DocText, 1, 6), SubSeq(DocText, 7, Len(DocText)) }

\* What the subprocess may print as its complaint, the text of the abort
\* error among it
StderrChunks == { <<"Operation aborted">>, <<"\n">> }

ModelIds == {Absent, "glm-4.7", "glm-4.7-long", VISION_MODEL}

Cwd == <<"/", "work">>

Paths ==
    { <<"/", "tmp", "/", "shot", ".", "PNG">>,
      <<"a", ".", "jpg">>,
      <<"notes", ".", "txt">>,
      <<"png">> }

ToolCallIds == {"call-1"}

\* What the host calls execute with, besides the signal
ToolCalls ==
    [toolCallId : ToolCallIds, modelId : ModelIds, path : Paths, onUpdate : BOOLEAN]

NoResult == [kind |-> "none", text |-> <<>>]

\* What the original read tool may answer
ReadResults ==
    { [kind |-> "return", text |-> <<"file contents">>],
      [kind |-> "throw", text |-> <<"ENOENT: no such file">>] }

\* path.resolve(cwd, path) for paths without "." and ".." segments
Resolve(cwd, path) ==
    IF path # <<>> /\ Head(path) = "/" THEN path
    ELSE IF path = <<>> THEN cwd
    ELSE cwd \o <<"/">> \o path

VARIABLES
    pc,        \* where execute stands: idle, awaiting, returned, threw, delegated
    signal,    \* the AbortSignal: present, aborted, listener (onAbort registered)
    child,     \* the subprocess: status, code, killed
    stdout,    \* analyzeImage's stdout buffer
    stderr,    \* analyzeImage's stderr buffer
    promise,   \* the promise analyzeImage returns: state, value
    outcome,   \* what execute returned or threw: kind, text
    updates,   \* the onUpdate calls, in order
    spawned,   \* the spawn calls, in order: command, args, stdio
    reads,     \* the calls of the original read tool, in order
    received,  \* the chunks the subprocess wrote: out and err, in arrival order
    observed,  \* the events analyzeImage's handlers ran for, in order
    kills,     \* the number of child.kill() calls
    request,   \* what the host called the tool or the command with
    notifications, \* the ctx.ui.notify calls, in order: text, severity
    editor,    \* the ctx.ui.editor calls, in order: the text shown
    loader,    \* ctx.ui.custom: the value done was called with, the reaction
    input,     \* a text handed to extractTextFromPiOutput, and its document
    extracted, \* what extractTextFromPiOutput returned for it
    query,     \* a path handed to isImageFile or a model id handed to needsVisionProxy
    answer     \* what the predicate returned for it

commandVars == <<notifications, editor, loader>>

pureVars == <<input, extracted, query, answer>>

vars ==
    <<pc, signal, child, stdout, stderr, promise, outcome, updates, spawned,
      reads, received, observed, kills, request, commandVars, pureVars>>

Pending == [state |-> "pending", value |-> <<>>]

Resolved(text) == [state |-> "resolved", value |-> text]

Rejected(message) == [state |-> "rejected", value |-> message]

\* Mutant of Settle: a later settlement replaces an earlier one.
SettleOverwrite(p, settled) == settled

\* resolvePromise / reject: only the first settlement of a promise counts
Settle(p, settled) == IF p.state = "pending" THEN settled ELSE p

\* Mutant of ExitFailureMessage: the message is the error stream alone.
ExitFailureMessageBare(code, err) == err

\* Mutant of ExitFailureMessage: the error stream is left out of the message.
ExitFailureMessageNoStderr(code, err) == <<"pi subprocess failed (", code, "): ">>

ExitFailureMessage(code, err) == <<"pi subprocess failed (", code, "): ">> \o err

AnalyzingUpdate == <<"[Analyzing image with ", VISION_MODEL, "...]">>

ResultText(summaryText) ==
    <<"[Image analyzed with ", VISION_MODEL, "]", "\n", "\n">> \o summaryText

WrappedMessage(message) == <<"Image analysis failed: ">> \o message

SpawnArgs(absolutePath) ==
    [command |-> "pi",
     args |-> <<<<"@">> \o absolutePath, <<"--provider">>, <<VISION_PROVIDER>>,
                <<"--model">>, <<VISION_MODEL>>, <<"--print">>, <<"--json">>,
                <<"--no-extensions">>, <<"-p">>, <<ANALYSIS_PROMPT>>>>,
     stdio |-> <<"ignore", "pipe", "pipe">>]

NoRequest == [kind |-> "none"]

NoLoader == [result |-> "none", text |-> <<>>, reacted |-> FALSE]

NotJson == [kind |-> "none"]

NoInput == [doc |-> NotJson, raw |-> <<>>]

NotRun == [done |-> FALSE, text |-> <<>>]

NoQuery == [kind |-> "none"]

NotAsked == [done |-> FALSE, value |-> FALSE]

\* The state before the calls of a set of invocations
HostInitOver(calls) ==
    /\ pc = [i \in calls |-> "idle"]
    /\ signal \in [calls -> {[present |-> b, aborted |-> FALSE, listener |-> FALSE] : b \in BOOLEAN}]
    /\ child = [i \in calls |-> [status |-> "none", code |-> Absent, killed |-> FALSE]]
    /\ stdout = [i \in calls |-> <<>>]
    /\ stderr = [i \in calls |-> <<>>]
    /\ promise = [i \in calls |-> [state |-> "none", value |-> <<>>]]
    /\ outcome = [i \in calls |-> [kind |-> "none", text |-> <<>>]]
    /\ updates = [i \in calls |-> <<>>]
    /\ spawned = [i \in calls |-> <<>>]
    /\ reads = [i \in calls |-> <<>>]
    /\ received = [i \in calls |-> [out |-> <<>>, err |-> <<>>]]
    /\ observed = [i \in calls |-> <<>>]
    /\ kills = [i \in calls |-> 0]
    /\ request = [i \in calls |-> NoRequest]
    /\ notifications = [i \in calls |-> <<>>]
    /\ editor = [i \in calls |-> <<>>]
    /\ loader = [i \in calls |-> NoLoader]

HostInit == HostInitOver(Invocations)

Init ==
    /\ HostInit
    /\ input = NoInput
    /\ extracted = NotRun
    /\ query = NoQuery
    /\ answer = NotAsked

(***************************************************************************)
(* analyzeImage (index.ts 101-155).                                        *)
(***************************************************************************)
\* The promise executor: spawn, the empty buffers, the handlers and, with a
\* signal, the abort listener.  sig is the signal the caller passes, spawnOk
\* is whether the executable starts.
AnalyzeImage(i, absolutePath, sig, spawnOk) ==
    /\ spawned' = [spawned EXCEPT ![i] = Append(@, SpawnArgs(absolutePath))]
    /\ child' = [child EXCEPT ![i] =
                    [status |-> IF spawnOk THEN "running" ELSE "spawnfail",
                     code |-> Absent, killed |-> FALSE]]
    /\ stdout' = [stdout EXCEPT ![i] = <<>>]
    /\ stderr' = [stderr EXCEPT ![i] = <<>>]
    /\ promise' = [promise EXCEPT ![i] = Pending]
    /\ signal' = [signal EXCEPT ![i] = [sig EXCEPT !.listener = sig.present]]

\* child.stdout.on("data")
StdoutData(i, chunk) ==
    /\ child[i].status \in {"running", "exited"}
    /\ Len(received[i].out) < MaxStdoutChunks
    /\ stdout' = [stdout EXCEPT ![i] = @ \o chunk]
    /\ received' = [received EXCEPT ![i].out = Append(@, chunk)]
    /\ UNCHANGED <<pc, signal, child, stderr, promise, outcome, updates, spawned,
                   reads, observed, kills>>
    /\ UNCHANGED <<request, commandVars, pureVars>>

\* child.stderr.on("data")
StderrData(i, chunk) ==
    /\ child[i].status \in {"running", "exited"}
    /\ Len(received[i].err) < MaxStderrChunks
    /\ stderr' = [stderr EXCEPT ![i] = @ \o chunk]
    /\ received' = [received EXCEPT ![i].err = Append(@, chunk)]
    /\ UNCHANGED <<pc, signal, child, stdout, promise, outcome, updates, spawned,
                   reads, observed, kills>>
    /\ UNCHANGED <<request, commandVars, pureVars>>

\* The subprocess ends (the operating system; no handler runs yet).
ChildExit(i, code) ==
    /\ child[i].status = "running"
    /\ child' = [child EXCEPT ![i].status = "exited", ![i].code = code]
    /\ UNCHANGED <<pc, signal, stdout, stderr, promise, outcome, updates, spawned,
                   reads, received, observed, kills>>
    /\ UNCHANGED <<request, commandVars, pureVars>>

\* Mutant of OnError: the error event is swallowed, the promise left alone.
OnErrorSwallowed(i) ==
    /\ child[i].status = "spawnfail"
    /\ child' = [child EXCEPT ![i].status = "errored", ![i].code = SpawnFailCode]
    /\ observed' = [observed EXCEPT ![i] = Append(@, "error")]
    /\ UNCHANGED <<pc, signal, stdout, stderr, promise, outcome, updates, spawned,
                   reads, received, kills>>
    /\ UNCHANGED <<request, commandVars, pureVars>>

\* child.on("error"): the executable could not be started
OnError(i) ==
    /\ child[i].status = "spawnfail"
    /\ child' = [child EXCEPT ![i].status = "errored", ![i].code = SpawnFailCode]
    /\ promise' = [promise EXCEPT ![i] = Settle(@, Rejected(SpawnErrorMessage))]
    /\ observed' = [observed EXCEPT ![i] = Append(@, "error")]
    /\ UNCHANGED <<pc, signal, stdout, stderr, outcome, updates, spawned, reads,
                   received, kills>>
    /\ UNCHANGED <<request, commandVars, pureVars>>

\* Mutant of CloseSettlement: the output is not trimmed.
CloseSettlementNoTrim(i) ==
    IF child[i].code # "0"
    THEN Rejected(ExitFailureMessage(child[i].code, stderr[i]))
    ELSE Resolved(extractTextFromPiOutput(stdout[i]))

\* The first close handler (136-142)
CloseSettlement(i) ==
    IF child[i].code # "0"
    THEN Rejected(ExitFailureMessage(child[i].code, stderr[i]))
    ELSE Resolved(extractTextFromPiOutput(Trim(stdout[i])))

\* Mutant of CloseListener: the close handler leaves the abort listener.
CloseListenerKept(i) == signal[i].listener

\* The second close handler (150-152), registered only with a signal
CloseListener(i) == IF signal[i].present THEN FALSE ELSE signal[i].listener

\* Mutant of OnClose: a failed exit does not settle the promise.
OnCloseIgnoresFailure(i) ==
    /\ child[i].status \in {"exited", "errored"}
    /\ child' = [child EXCEPT ![i].status = "closed"]
    /\ promise' = [promise EXCEPT ![i] =
                      IF child[i].code = "0" THEN Settle(@, CloseSettlement(i)) ELSE @]
    /\ signal' = [signal EXCEPT ![i].listener = CloseListener(i)]
    /\ observed' = [observed EXCEPT ![i] = Append(@, "close")]
    /\ UNCHANGED <<pc, stdout, stderr, outcome, updates, spawned, reads, received,
                   kills>>
    /\ UNCHANGED <<request, commandVars, pureVars>>

\* child.on("close"): both handlers, in registration order
OnClose(i) ==
    /\ child[i].status \in {"exited", "errored"}
    /\ child' = [child EXCEPT ![i].status = "closed"]
    /\ promise' = [promise EXCEPT ![i] = Settle(@, CloseSettlement(i))]
    /\ signal' = [signal EXCEPT ![i].listener = CloseListener(i)]
    /\ observed' = [observed EXCEPT ![i] = Append(@, "close")]
    /\ UNCHANGED <<pc, stdout, stderr, outcome, updates, spawned, reads, received,
                   kills>>
    /\ UNCHANGED <<request, commandVars, pureVars>>

\* Mutant of AbortSettlement: onAbort kills the child and rejects nothing.
AbortSettlementKillOnly(i) == promise[i]

\* onAbort (145-148): what the promise becomes
AbortSettlement(i) == Settle(promise[i], Rejected(AbortMessage))

\* Mutant of Abort: onAbort kills the subprocess of every invocation.
AbortKillsAll(i) ==
    /\ signal[i].present
    /\ ~signal[i].aborted
    /\ signal' = [signal EXCEPT ![i].aborted = TRUE, ![i].listener = FALSE]
    /\ IF signal[i].listener
       THEN /\ kills' = [j \in DOMAIN kills |-> kills[j] + 1]
            /\ child' = [j \in DOMAIN child |->
                            [child[j] EXCEPT !.killed = (child[j].status = "running")]]
            /\ promise' = [promise EXCEPT ![i] = AbortSettlement(i)]
            /\ observed' = [observed EXCEPT ![i] = Append(@, "abort")]
       ELSE UNCHANGED <<kills, child, promise, observed>>
    /\ UNCHANGED <<pc, stdout, stderr, outcome, updates, spawned, reads, received>>
    /\ UNCHANGED <<request, commandVars, pureVars>>

\* The host aborts the signal; the listener, when registered, runs once.
Abort(i) ==
    /\ signal[i].present
    /\ ~signal[i].aborted
    /\ signal' = [signal EXCEPT ![i].aborted = TRUE, ![i].listener = FALSE]
    /\ IF signal[i].listener
       THEN /\ kills' = [kills EXCEPT ![i] = @ + 1]
            /\ child' = [child EXCEPT ![i].killed = (child[i].status = "running")]
            /\ promise' = [promise EXCEPT ![i] = AbortSettlement(i)]
            /\ observed' = [observed EXCEPT ![i] = Append(@, "abort")]
       ELSE UNCHANGED <<kills, child, promise, observed>>
    /\ UNCHANGED <<pc, stdout, stderr, outcome, updates, spawned, reads, received>>
    /\ UNCHANGED <<request, commandVars, pureVars>>

(***************************************************************************)
(* The intercepted read tool (index.ts 163-196).                           *)
(***************************************************************************)
\* onUpdate?.(payload): the updates after the call
Emit(i, onUpdate, payload) == IF onUpdate THEN Append(updates[i], payload) ELSE updates[i]

\* Mutant of DelegateArgs: the original tool is given the resolved path.
DelegateArgsResolved(i, call) ==
    [toolCallId |-> call.toolCallId, params |-> [path |-> Resolve(Cwd, call.path)],
     signal |-> signal[i].present, onUpdate |-> call.onUpdate, result |-> NoResult]

\* localRead.execute(toolCallId, params, signal, onUpdate): the arguments
DelegateArgs(i, call) ==
    [toolCallId |-> call.toolCallId, params |-> [path |-> call.path],
     signal |-> signal[i].present, onUpdate |-> call.onUpdate, result |-> NoResult]

\* Mutant of ShouldProxy: an image is proxied whatever the model is.
ShouldProxyAnyModel(modelId, absolutePath) == isImageFile(absolutePath)

\* The negation of the pass-through condition (168)
ShouldProxy(modelId, absolutePath) ==
    ~(~needsVisionProxy(modelId) \/ ~isImageFile(absolutePath))

\* execute up to its await, or up to the call of the original read tool
Execute(i, call, spawnOk) ==
    /\ pc[i] = "idle"
    /\ request' = [request EXCEPT ![i] =
                      [kind |-> "tool", toolCallId |-> call.toolCallId,
                       modelId |-> call.modelId, path |-> call.path,
                       onUpdate |-> call.onUpdate]]
    /\ LET absolutePath == Resolve(Cwd, call.path)
       IN IF ~ShouldProxy(call.modelId, absolutePath)
          THEN /\ reads' = [reads EXCEPT ![i] = Append(@, DelegateArgs(i, call))]
               /\ pc' = [pc EXCEPT ![i] = "delegated"]
               /\ UNCHANGED <<signal, child, stdout, stderr, promise, updates, spawned>>
          ELSE /\ updates' = [updates EXCEPT ![i] = Emit(i, call.onUpdate, AnalyzingUpdate)]
               /\ AnalyzeImage(i, absolutePath, signal[i], spawnOk)
               /\ pc' = [pc EXCEPT ![i] = "awaiting"]
               /\ UNCHANGED reads
    /\ UNCHANGED <<outcome, received, observed, kills>>
    /\ UNCHANGED <<commandVars, pureVars>>

\* The original read tool settles: execute returned its promise, so its
\* result or its failure is the result or the failure of execute.
LocalReadReturn(i, res) ==
    /\ pc[i] = "delegated"
    /\ reads' = [reads EXCEPT ![i][1].result = res]
    /\ outcome' = [outcome EXCEPT ![i] = res]
    /\ pc' = [pc EXCEPT ![i] = IF res.kind = "return" THEN "returned" ELSE "threw"]
    /\ UNCHANGED <<signal, child, stdout, stderr, promise, updates, spawned, received,
                   observed, kills>>
    /\ UNCHANGED <<request, commandVars, pureVars>>

\* Mutant of AfterAwait: the signal is not checked again after the await.
AfterAwaitNoRecheck(i) == [kind |-> "return", text |-> ResultText(promise[i].value)]

\* What execute does with a resolved promise (181-191)
AfterAwait(i) ==
    IF signal[i].present /\ signal[i].aborted
    THEN [kind |-> "throw", text |-> WrappedMessage(AbortMessage)]
    ELSE [kind |-> "return", text |-> ResultText(promise[i].value)]

\* Mutant of Resume: a failed analysis is tried again.
ResumeRetry(i) ==
    /\ pc[i] = "awaiting"
    /\ promise[i].state \in {"resolved", "rejected"}
    /\ LET out == IF promise[i].state = "resolved"
                  THEN AfterAwait(i)
                  ELSE [kind |-> "throw", text |-> WrappedMessage(promise[i].value)]
       IN /\ outcome' = [outcome EXCEPT ![i] = out]
          /\ updates' = [updates EXCEPT ![i] =
                            IF out.kind = "return"
                            THEN Emit(i, request[i].onUpdate, out.text) ELSE @]
          /\ pc' = [pc EXCEPT ![i] = IF out.kind = "return" THEN "returned" ELSE "idle"]
    /\ UNCHANGED <<signal, child, stdout, stderr, promise, spawned, reads, received,
                   observed, kills>>
    /\ UNCHANGED <<request, commandVars, pureVars>>

\* Mutant of Resume: the final update is emitted whatever the outcome is.
ResumeAlwaysUpdates(i) ==
    /\ pc[i] = "awaiting"
    /\ promise[i].state \in {"resolved", "rejected"}
    /\ LET out == IF promise[i].state = "resolved"
                  THEN AfterAwait(i)
                  ELSE [kind |-> "throw", text |-> WrappedMessage(promise[i].value)]
       IN /\ outcome' = [outcome EXCEPT ![i] = out]
          /\ updates' = [updates EXCEPT ![i] = Emit(i, request[i].onUpdate, out.text)]
          /\ pc' = [pc EXCEPT ![i] = IF out.kind = "return" THEN "returned" ELSE "threw"]
    /\ UNCHANGED <<signal, child, stdout, stderr, promise, spawned, reads, received,
                   observed, kills>>
    /\ UNCHANGED <<request, commandVars, pureVars>>

\* execute after its await: the re-check and the result, or the catch block
Resume(i) ==
    /\ pc[i] = "awaiting"
    /\ promise[i].state \in {"resolved", "rejected"}
    /\ LET out == IF promise[i].state = "resolved"
                  THEN AfterAwait(i)
                  ELSE [kind |-> "throw", text |-> WrappedMessage(promise[i].value)]
       IN /\ outcome' = [outcome EXCEPT ![i] = out]
          /\ updates' = [updates EXCEPT ![i] =
                            IF out.kind = "return"
                            THEN Emit(i, request[i].onUpdate, out.text) ELSE @]
          /\ pc' = [pc EXCEPT ![i] = IF out.kind = "return" THEN "returned" ELSE "threw"]
    /\ UNCHANGED <<signal, child, stdout, stderr, promise, spawned, reads, received,
                   observed, kills>>
    /\ UNCHANGED <<request, commandVars, pureVars>>

(***************************************************************************)
(* The analyze-image command (index.ts 200-242).  The loader is the        *)
(* host's BorderedLoader: it owns an abort signal and, when the user       *)
(* cancels, aborts it and calls its onAbort.  loader[i].result is what     *)
(* done was first called with.                                             *)
(***************************************************************************)
Notification(message, type) == [message |-> message, type |-> type]

\* ctx.ui.notify
Notify(i, message, type) ==
    notifications' = [notifications EXCEPT ![i] = Append(@, Notification(message, type))]

\* done(value): the first call settles what ctx.ui.custom returns
Done(l, result, text) ==
    IF l.result = "pending" THEN [l EXCEPT !.result = result, !.text = text] ELSE l

\* The handler up to its await of ctx.ui.custom, or to an early return
Command(i, hasUI, args, spawnOk) ==
    /\ pc[i] = "idle"
    /\ request' = [request EXCEPT ![i] = [kind |-> "command", hasUI |-> hasUI, args |-> args]]
    /\ LET imagePath == Trim(args)
           absolutePath == Resolve(Cwd, imagePath)
       IN IF ~hasUI
          THEN /\ Notify(i, <<"analyze-image requires interactive mode">>, "error")
               /\ pc' = [pc EXCEPT ![i] = "done"]
               /\ UNCHANGED <<signal, child, stdout, stderr, promise, spawned, loader>>
          ELSE IF imagePath = <<>>
          THEN /\ Notify(i, <<"Usage: /analyze-image <path-to-image>">>, "error")
               /\ pc' = [pc EXCEPT ![i] = "done"]
               /\ UNCHANGED <<signal, child, stdout, stderr, promise, spawned, loader>>
          ELSE IF ~isImageFile(absolutePath)
          THEN /\ Notify(i, <<"Not a supported image file">>, "error")
               /\ pc' = [pc EXCEPT ![i] = "done"]
               /\ UNCHANGED <<signal, child, stdout, stderr, promise, spawned, loader>>
          ELSE /\ loader' = [loader EXCEPT ![i] = [NoLoader EXCEPT !.result = "pending"]]
               /\ AnalyzeImage(i, absolutePath,
                               [present |-> TRUE, aborted |-> FALSE, listener |-> FALSE],
                               spawnOk)
               /\ pc' = [pc EXCEPT ![i] = "custom"]
               /\ UNCHANGED notifications
    /\ UNCHANGED <<outcome, updates, reads, received, observed, kills, editor, pureVars>>

\* The user cancels in the loader while the analysis runs: the loader
\* aborts its signal, so onAbort of analyzeImage runs (145-148), and calls
\* loader.onAbort, which is done(null) (223).
UserCancel(i) ==
    /\ pc[i] = "custom"
    /\ loader[i].result = "pending"
    /\ promise[i].state = "pending"
    /\ signal' = [signal EXCEPT ![i].aborted = TRUE, ![i].listener = FALSE]
    /\ IF signal[i].listener
       THEN /\ kills' = [kills EXCEPT ![i] = @ + 1]
            /\ child' = [child EXCEPT ![i].killed = (child[i].status = "running")]
            /\ promise' = [promise EXCEPT ![i] = AbortSettlement(i)]
            /\ observed' = [observed EXCEPT ![i] = Append(@, "abort")]
       ELSE UNCHANGED <<kills, child, promise, observed>>
    /\ loader' = [loader EXCEPT ![i] = Done(@, "null", <<>>)]
    /\ UNCHANGED <<pc, stdout, stderr, outcome, updates, spawned, reads, received,
                   request, notifications, editor, pureVars>>

\* The reactions on the promise of analyzeImage (225-230)
Reaction(i) ==
    /\ request[i].kind = "command"
    /\ loader[i].result # "none"
    /\ ~loader[i].reacted
    /\ promise[i].state \in {"resolved", "rejected"}
    /\ IF promise[i].state = "resolved"
       THEN /\ loader' = [loader EXCEPT ![i] =
                             [Done(@, "text", promise[i].value) EXCEPT !.reacted = TRUE]]
            /\ UNCHANGED notifications
       ELSE /\ Notify(i, <<"Analysis failed: ">> \o promise[i].value, "error")
            /\ loader' = [loader EXCEPT ![i] = [Done(@, "null", <<>>) EXCEPT !.reacted = TRUE]]
    /\ UNCHANGED <<pc, signal, child, stdout, stderr, promise, outcome, updates, spawned,
                   reads, received, observed, kills, request, editor, pureVars>>

\* Mutant of CommandResume: an empty analysis text is taken for a cancellation.
CommandResumeFalsy(i) ==
    /\ pc[i] = "custom"
    /\ loader[i].result \in {"null", "text"}
    /\ IF loader[i].result = "null" \/ loader[i].text = <<>>
       THEN /\ Notify(i, <<"Cancelled">>, "info")
            /\ UNCHANGED editor
       ELSE /\ editor' = [editor EXCEPT ![i] =
                             Append(@, [title |-> "Image Analysis", text |-> loader[i].text])]
            /\ UNCHANGED notifications
    /\ pc' = [pc EXCEPT ![i] = "done"]
    /\ UNCHANGED <<signal, child, stdout, stderr, promise, outcome, updates, spawned,
                   reads, received, observed, kills, request, loader, pureVars>>

\* The handler after its await (234-240)
CommandResume(i) ==
    /\ pc[i] = "custom"
    /\ loader[i].result \in {"null", "text"}
    /\ IF loader[i].result = "null"
       THEN /\ Notify(i, <<"Cancelled">>, "info")
            /\ UNCHANGED editor
       ELSE /\ editor' = [editor EXCEPT ![i] =
                             Append(@, [title |-> "Image Analysis", text |-> loader[i].text])]
            /\ UNCHANGED notifications
    /\ pc' = [pc EXCEPT ![i] = "done"]
    /\ UNCHANGED <<signal, child, stdout, stderr, promise, outcome, updates, spawned,
                   reads, received, observed, kills, request, loader, pureVars>>

Next ==
    \E i \in Invocations :
        \/ \E call \in ToolCalls, ok \in BOOLEAN : Execute(i, call, ok)
        \/ \E res \in ReadResults : LocalReadReturn(i, res)
        \/ \E c \in StdoutChunks : StdoutData(i, c)
        \/ \E c \in StderrChunks : StderrData(i, c)
        \/ \E code \in ExitCodes : ChildExit(i, code)
        \/ OnError(i)
        \/ OnClose(i)
        \/ Abort(i)
        \/ Resume(i)

Spec == Init /\ [][Next]_vars

\* The event loop delivers the events that have occurred.
FairSpec ==
    /\ Spec
    /\ \A i \in Invocations : WF_vars(OnError(i)) /\ WF_vars(OnClose(i))

\* What the user may type after the command name
CommandArgs ==
    { <<>>, <<" ">>, <<"notes", ".", "txt">>, <<" ", "a", ".", "jpg", "\n">>,
      <<"/", "tmp", "/", "shot", ".", "PNG">> }

\* The command is called without a signal of the host.
CommandInit ==
    /\ Init
    /\ \A i \in Invocations : ~signal[i].present

CommandNext ==
    \E i \in Invocations :
        \/ \E hasUI \in BOOLEAN, args \in CommandArgs, ok \in BOOLEAN : Command(i, hasUI, args, ok)
        \/ \E c \in StdoutChunks : StdoutData(i, c)
        \/ \E c \in StderrChunks : StderrData(i, c)
        \/ \E code \in ExitCodes : ChildExit(i, code)
        \/ OnError(i)
        \/ OnClose(i)
        \/ UserCancel(i)
        \/ Reaction(i)
        \/ CommandResume(i)

CommandSpec == CommandInit /\ [][CommandNext]_vars

(***************************************************************************)
(* Two calls of the read tool at once, each with a signal of its own and   *)
(* each proxying: the host interleaves their events.                       *)
(***************************************************************************)
ConcurrentCalls == {"first", "second"}

\* What the host calls each of them with
ConcurrentCall(i) ==
    [toolCallId |-> "call-1", modelId |-> "glm-4.7", onUpdate |-> TRUE,
     path |-> IF i = "first" THEN <<"a", ".", "jpg">>
              ELSE <<"/", "tmp", "/", "shot", ".", "PNG">>]

\* What each subprocess prints
ConcurrentChunk(i) == IF i = "first" THEN <<"one">> ELSE <<"two">>

ConcurrentExitCodes == {"0", "1"}

ConcurrentInit ==
    /\ HostInitOver(ConcurrentCalls)
    /\ \A i \in ConcurrentCalls : signal[i].present
    /\ input = NoInput
    /\ extracted = NotRun
    /\ query = NoQuery
    /\ answer = NotAsked

ConcurrentNext ==
    \E i \in ConcurrentCalls :
        \/ \E ok \in BOOLEAN : Execute(i, ConcurrentCall(i), ok)
        \/ StdoutData(i, ConcurrentChunk(i))
        \/ StderrData(i, ConcurrentChunk(i))
        \/ \E code \in ConcurrentExitCodes : ChildExit(i, code)
        \/ OnError(i)
        \/ OnClose(i)
        \/ Abort(i)

ConcurrentSpec == ConcurrentInit /\ [][ConcurrentNext]_vars

(***************************************************************************)
(* extractTextFromPiOutput on its own: the function is applied once to an  *)
(* output text.  An input records the document the text was written from   *)
(* (doc), or NotJson when the text is no JSON document, next to the text.  *)
(***************************************************************************)
MaxTurns == 3

MaxSegments == 3

\* The turns the documents are made of
TurnPool ==
    { User(<<TextBlock(<<"mid">>)>>),
      Assistant(<<TextBlock(<<"first">>)>>),
      Assistant(<<TextBlock(<<"X">>), ImageBlock, TextBlock(<<"Y">>)>>),
      [role |-> "assistant"],
      Assistant(<<>>),
      JsonNull,
      JsonNumber }

\* The segments the content of a turn is made of
BlockPool ==
    { TextBlock(<<"X">>), TextBlock(<<"two", "words">>), TextBlock(<<>>), [type |-> "text"],
      ImageBlock, JsonNumber, JsonNull }

\* Documents with up to MaxTurns turns
TurnDocs ==
    { Object([messages |-> ms]) : ms \in UNION { [1..k -> TurnPool] : k \in 0..MaxTurns } }

\* Documents of a user turn and an assistant turn with up to MaxSegments segments
SegmentDocs ==
    { Object([messages |-> <<User(<<TextBlock(<<"mid">>)>>), Assistant(cs)>>])
        : cs \in UNION { [1..k -> BlockPool] : k \in 0..MaxSegments } }

\* Values that are no record with turns
OtherDocs == { JsonNull, JsonNumber, JsonArray, [kind |-> "object"] }

Docs == TurnDocs \cup SegmentDocs \cup OtherDocs

\* Documents whose texts are cut short or wrapped below
SmallDocs == { d \in TurnDocs : Len(d.messages) <= 1 } \cup OtherDocs

\* Texts that are no JSON: the empty text, prose, blank text, a document
\* cut short, a document followed by more
NotJsonTexts ==
    { <<>>, <<"not json">>, <<" ", "\n">> }
    \cup UNION { { SubSeq(Stringify(d), 1, k) : k \in 0..(Len(Stringify(d)) - 1) }
                  : d \in SmallDocs }
    \cup { Stringify(d) \o <<"}">> : d \in SmallDocs }

ExtractInputs ==
    { [doc |-> d, raw |-> Stringify(d)] : d \in Docs }
    \cup { [doc |-> d, raw |-> <<" ">> \o Stringify(d) \o <<"\n">>] : d \in SmallDocs }
    \cup { [doc |-> NotJson, raw |-> t] : t \in NotJsonTexts }

ExtractInit ==
    /\ HostInit
    /\ \A i \in Invocations : ~signal[i].present
    /\ input \in ExtractInputs
    /\ extracted = NotRun
    /\ query = NoQuery
    /\ answer = NotAsked

Extract ==
    /\ ~extracted.done
    /\ extracted' = [done |-> TRUE, text |-> extractTextFromPiOutput(input.raw)]
    /\ UNCHANGED <<pc, signal, child, stdout, stderr, promise, outcome, updates, spawned,
                   reads, received, observed, kills, request, commandVars, input,
                   query, answer>>

ExtractNext == Extract

ExtractSpec == ExtractInit /\ [][ExtractNext]_vars

(***************************************************************************)
(* isImageFile and needsVisionProxy on their own: a predicate is applied   *)
(* once to a path or to a model id.                                        *)
(***************************************************************************)
MaxPathLen == 3

\* The pieces the paths are made of: names, separators and extensions
PathTokens == {"shot", ".", "/", "png", "PNG", "Png", "JpG", "jpeg", "gif", "webp", "txt"}

QueryPaths == UNION { [1..k -> PathTokens] : k \in 0..MaxPathLen }

\* undefined, the listed models, the vision models, models that extend a
\* listed name, other models
QueryModelIds ==
    { Absent, "glm-4.6", "glm-4.7", "glm-4.7-flash", "glm-4.6v", "glm-4.5v",
      "glm-4.7-long", "glm-4.7-flash-lite", "glm-4", "gpt-4o" }

Queries ==
    { [kind |-> "path", path |-> p] : p \in QueryPaths }
    \cup { [kind |-> "model", modelId |-> m] : m \in QueryModelIds }

PredicateInit ==
    /\ HostInit
    /\ \A i \in Invocations : ~signal[i].present
    /\ input = NoInput
    /\ extracted = NotRun
    /\ query \in Queries
    /\ answer = NotAsked

IsImageFile ==
    /\ query.kind = "path"
    /\ ~answer.done
    /\ answer' = [done |-> TRUE, value |-> isImageFile(query.path)]
    /\ UNCHANGED <<pc, signal, child, stdout, stderr, promise, outcome, updates, spawned,
                   reads, received, observed, kills, request, commandVars, input,
                   extracted, query>>

NeedsVisionProxy ==
    /\ query.kind = "model"
    /\ ~answer.done
    /\ answer' = [done |-> TRUE, value |-> needsVisionProxy(query.modelId)]
    /\ UNCHANGED <<pc, signal, child, stdout, stderr, promise, outcome, updates, spawned,
                   reads, received, observed, kills, request, commandVars, input,
                   extracted, query>>

PredicateNext == IsImageFile \/ NeedsVisionProxy

PredicateSpec == PredicateInit /\ [][PredicateNext]_vars

(***************************************************************************)
(* Properties.                                                             *)
(***************************************************************************)
RECURSIVE Concat(_)
Concat(chunks) == IF chunks = <<>> THEN <<>> ELSE Head(chunks) \o Concat(Tail(chunks))

Settled(i) == promise[i].state \in {"resolved", "rejected"}

First(i, event) == observed[i] # <<>> /\ Head(observed[i]) = event

Saw(i, event) == \E k \in 1..Len(observed[i]) : observed[i][k] = event

\* The phases of an invocation; the code has no state between the call of
\* spawn and the running child, so Launching and Running are one phase.
Phase(i) ==
    CASE promise[i].state = "none" -> "Idle"
      [] promise[i].state = "pending" -> "Running"
      [] promise[i].state = "resolved" -> "Succeeded"
      [] promise[i] = Rejected(AbortMessage) -> "Cancelled"
      [] promise[i] = Rejected(SpawnErrorMessage) -> "FailedLaunch"
      [] OTHER -> "FailedExit"

Outcomes == {"Succeeded", "FailedExit", "FailedLaunch", "Cancelled"}

\* C1: when execute takes up a promise resolved with a success value while
\* the signal is aborted, it throws the operation-aborted error, returns
\* nothing and emits no final update.
C1_AbortBeatsStaleSuccess ==
    [][\A i \in Invocations :
          (pc[i] = "awaiting" /\ pc'[i] # "awaiting"
             /\ promise[i].state = "resolved" /\ signal[i].aborted)
          => /\ pc'[i] = "threw"
             /\ outcome'[i] = [kind |-> "throw", text |-> WrappedMessage(AbortMessage)]
             /\ updates'[i] = updates[i]]_vars

C1_Witness ==
    \E i \in Invocations :
        /\ pc[i] = "threw"
        /\ promise[i].state = "resolved"
        /\ observed[i] = <<"close">>
        /\ child[i].code = "0"
        /\ signal[i].aborted
        /\ kills[i] = 0
        /\ updates[i] = <<AnalyzingUpdate>>

\* C2: an abort that is the first event analyzeImage's handlers see sends
\* one termination request and rejects the promise with "Operation
\* aborted", and the close event of the killed process leaves that so.
C2_AbortWhileRunningRejects ==
    \A i \in Invocations :
        First(i, "abort") => kills[i] = 1 /\ promise[i] = Rejected(AbortMessage)

C2_Witness ==
    \E i \in Invocations :
        /\ observed[i] = <<"abort", "close">>
        /\ child[i].killed
        /\ child[i].code \in {"null", "1"}
        /\ promise[i] = Rejected(AbortMessage)

\* C3 (as claimed): whenever the signal is aborted and the close of the
\* started subprocess has not been observed, termination was requested and
\* the promise is rejected with "Operation aborted"; a promise never
\* resolves while the signal is aborted and the close is still to come.
C3_Claim ==
    \A i \in Invocations :
        (signal[i].aborted /\ child[i].status \in {"running", "exited"})
        => kills[i] >= 1 /\ promise[i] = Rejected(AbortMessage)

\* C4: when the close with exit code 0 is the first event, the promise is
\* resolved with extractTextFromPiOutput of the trimmed concatenation of
\* the stdout chunks in arrival order, whatever arrived on stderr.
C4_SuccessValue ==
    \A i \in Invocations :
        (First(i, "close") /\ child[i].code = "0")
        => promise[i] = Resolved(extractTextFromPiOutput(Trim(Concat(received[i].out))))

C4_Witness ==
    \E i \in Invocations :
        /\ observed[i] = <<"close">>
        /\ child[i].code = "0"
        /\ received[i].out = <<<<" ", "oops", "\n">>, <<" ", "oops", "\n">>>>
        /\ received[i].err # <<>>
        /\ promise[i] = Resolved(<<"oops", "\n", " ", "oops">>)

\* C5: when the close with a nonzero or null exit code is the first event,
\* the promise is rejected with the message that carries the code and all
\* of the stderr text, also when stdout holds a well-formed record.
C5_ExitFailure ==
    \A i \in Invocations :
        (First(i, "close") /\ child[i].code # "0")
        => promise[i] = Rejected(<<"pi subprocess failed (", child[i].code, "): ">>
                                 \o Concat(received[i].err))

C5_Witness ==
    \E i \in Invocations :
        /\ observed[i] = <<"close">>
        /\ child[i].code = "null"
        /\ Concat(received[i].out) = DocText
        /\ received[i].err = <<<<"Operation aborted">>>>
        /\ promise[i] = Rejected(<<"pi subprocess failed (", "null", "): ", "Operation aborted">>)

\* C6: when the launch error is the first event, the promise is rejected
\* with the underlying error and execute throws "Image analysis failed: "
\* followed by its message; the close that follows changes neither.
C6_LaunchFailure ==
    \A i \in Invocations :
        First(i, "error")
        => /\ promise[i] = Rejected(SpawnErrorMessage)
           /\ pc[i] # "returned"
           /\ pc[i] = "threw"
              => outcome[i] = [kind |-> "throw",
                               text |-> <<"Image analysis failed: ">> \o SpawnErrorMessage]

C6_Witness ==
    \E i \in Invocations :
        /\ observed[i] = <<"error", "close">>
        /\ pc[i] = "threw"
        /\ outcome[i].text = <<"Image analysis failed: ", "spawn pi ENOENT">>

\* C7 (as claimed): once the handlers have seen the subprocess end (the
\* error event of a failed launch, or the close event), the abort listener
\* is not registered.
C7_Claim ==
    \A i \in Invocations :
        child[i].status \in {"errored", "closed"} => ~signal[i].listener

\* C8: an invocation moves Idle -> Running -> one outcome and stays there:
\* a settled promise never changes, whatever events follow.
C8_OutcomeAbsorbing ==
    [][\A i \in Invocations :
          /\ Settled(i) => promise'[i] = promise[i]
          /\ \/ Phase(i)' = Phase(i)
             \/ Phase(i) = "Idle" /\ Phase(i)' = "Running"
             \/ Phase(i) = "Running" /\ Phase(i)' \in Outcomes]_vars

C8_Witness ==
    \E i \in Invocations :
        /\ observed[i] = <<"error", "abort", "close">>
        /\ Phase(i) = "FailedLaunch"

\* C9: an invocation has spawned at most one subprocess in every state,
\* exactly one once execute proxies, and none when it passes through.
C9_OneSubprocess ==
    \A i \in Invocations :
        /\ Len(spawned[i]) <= 1
        /\ (pc[i] \in {"awaiting", "returned", "threw"} /\ reads[i] = <<>>)
               => Len(spawned[i]) = 1
        /\ (pc[i] = "idle" \/ reads[i] # <<>>) => Len(spawned[i]) = 0

C9_Witness ==
    \E i \in Invocations :
        /\ pc[i] = "threw"
        /\ Phase(i) = "FailedExit"
        /\ child[i].status = "closed"
        /\ Len(spawned[i]) = 1

\* C10: the promise is settled only after a terminal event was handled,
\* and once the subprocess has ended or failed to start, or an abort was
\* handled, the promise is eventually settled.
C10_SettlesOnTerminalEvent ==
    /\ [](\A i \in Invocations : Settled(i) => observed[i] # <<>>)
    /\ \A i \in Invocations :
          (child[i].status \in {"exited", "spawnfail"} \/ Saw(i, "abort")) ~> Settled(i)

C10_Witness ==
    \E i \in Invocations :
        /\ observed[i] = <<"close">>
        /\ child[i].code = "1"
        /\ Settled(i)
        /\ pc[i] = "awaiting"


\* The call is a call of the read tool that has begun
ToolCall(i) == request[i].kind = "tool" /\ pc[i] # "idle"

\* The interception decision as the specification states it
Intercepts(i) ==
    /\ request[i].modelId \in {"glm-4.6", "glm-4.7", "glm-4.7-flash"}
    /\ \E e \in {"jpg", "jpeg", "png", "gif", "webp"} :
          LET p == Resolve(Cwd, request[i].path)
          IN /\ Len(p) >= 2
             /\ p[Len(p) - 1] = "."
             /\ p[Len(p)] \in {e, IF e = "png" THEN "PNG" ELSE e}

\* C11: when the decision is negative, the original read tool is called
\* exactly once with the call id, the parameters, the signal and the update
\* callback that execute received, its result or failure is the outcome of
\* execute, no subprocess is spawned and no update is emitted.
C11_PassThroughTransparent ==
    \A i \in Invocations :
        (ToolCall(i) /\ ~Intercepts(i)) =>
            /\ Len(reads[i]) = 1
            /\ reads[i][1].toolCallId = request[i].toolCallId
            /\ reads[i][1].params = [path |-> request[i].path]
            /\ reads[i][1].signal = signal[i].present
            /\ reads[i][1].onUpdate = request[i].onUpdate
            /\ spawned[i] = <<>>
            /\ updates[i] = <<>>
            /\ promise[i].state = "none"
            /\ pc[i] \in {"delegated", "returned", "threw"}
            /\ pc[i] = "delegated" => outcome[i].kind = "none"
            /\ pc[i] = "returned" =>
                  outcome[i] = reads[i][1].result /\ outcome[i].kind = "return"
            /\ pc[i] = "threw" =>
                  outcome[i] = reads[i][1].result /\ outcome[i].kind = "throw"

C11_Witness ==
    \E i \in Invocations :
        /\ ToolCall(i)
        /\ request[i].modelId = "glm-4.7"
        /\ request[i].path = <<"notes", ".", "txt">>
        /\ reads[i][1].params = [path |-> <<"notes", ".", "txt">>]
        /\ pc[i] = "threw"
        /\ outcome[i] = [kind |-> "throw", text |-> <<"ENOENT: no such file">>]

\* C12: a call of the read tool proxies (spawns the subprocess, does not
\* call the original tool) exactly when the model is a non-vision model and
\* the resolved path is an image; in every other case, an absent model
\* with an image and a non-vision model with another file among them, it
\* calls the original tool and spawns nothing.
C12_ProxyIffBoth ==
    \A i \in Invocations :
        ToolCall(i) =>
            /\ (Len(spawned[i]) = 1 /\ reads[i] = <<>>) <=> Intercepts(i)
            /\ (Len(reads[i]) = 1 /\ spawned[i] = <<>>) <=> ~Intercepts(i)
            /\ request[i].modelId \in {Absent, VISION_MODEL} => Len(reads[i]) = 1
            /\ request[i].path \in {<<"notes", ".", "txt">>, <<"png">>} => Len(reads[i]) = 1

C12_Witness ==
    \E i \in Invocations :
        /\ ToolCall(i)
        /\ request[i].modelId = Absent
        /\ request[i].path = <<"a", ".", "jpg">>
        /\ Len(reads[i]) = 1
        /\ spawned[i] = <<>>

\* C13: in a proxying call with an update callback the analyzing update is
\* the first update, emitted once and not later than the spawn; the final
\* update exists exactly when execute returned, it follows the analyzing
\* update and is the text of the returned result, tagged with the vision
\* model; a call that threw has no final update.  Without a callback
\* nothing is emitted.
C13_Updates ==
    \A i \in Invocations :
        (ToolCall(i) /\ Intercepts(i)) =>
            IF request[i].onUpdate
            THEN /\ Len(updates[i]) >= 1
                 /\ updates[i][1] = <<"[Analyzing image with ", "glm-4.6v", "...]">>
                 /\ \A k \in 2..Len(updates[i]) : updates[i][k] # updates[i][1]
                 /\ Len(updates[i]) = 2 <=> pc[i] = "returned"
                 /\ Len(updates[i]) = 1 <=> pc[i] \in {"awaiting", "threw"}
                 /\ pc[i] = "returned" =>
                       /\ updates[i][2] = outcome[i].text
                       /\ outcome[i].text =
                             <<"[Image analyzed with ", "glm-4.6v", "]", "\n", "\n">>
                                 \o promise[i].value
            ELSE updates[i] = <<>>

C13_Witness ==
    \E i \in Invocations :
        /\ ToolCall(i)
        /\ request[i].onUpdate
        /\ pc[i] = "returned"
        /\ updates[i] = <<AnalyzingUpdate, ResultText(<<"chart">>)>>

\* The operation-aborted error as the tool-execution layer sees it
WrappedAbort == <<"Image analysis failed: ", "Operation aborted">>

\* C14: a rejected analysis ends execute with one thrown error, the
\* rejection message behind the prefix, never with a returned value; and
\* the thrown message is the operation-aborted one exactly when the abort
\* was handled before any other terminal event or the signal was aborted
\* when execute took up a success, never after an exit or launch failure.
C14_FailuresWrapped ==
    \A i \in Invocations :
        (ToolCall(i) /\ Intercepts(i) /\ pc[i] \in {"returned", "threw"}) =>
            /\ promise[i].state = "rejected" =>
                  /\ pc[i] = "threw"
                  /\ outcome[i] = [kind |-> "throw",
                                    text |-> <<"Image analysis failed: ">> \o promise[i].value]
            /\ pc[i] = "returned" => promise[i].state = "resolved"
            /\ pc[i] = "threw" =>
                  (outcome[i].text = WrappedAbort <=>
                      \/ promise[i].state = "rejected" /\ First(i, "abort")
                      \/ promise[i].state = "resolved" /\ signal[i].aborted)
            /\ (promise[i].state = "rejected" /\ ~First(i, "abort")) =>
                  outcome[i].text # WrappedAbort

C14_Witness ==
    \E i \in Invocations :
        /\ ToolCall(i)
        /\ pc[i] = "threw"
        /\ First(i, "close")
        /\ received[i].err = <<<<"Operation aborted">>>>
        /\ outcome[i].text = <<"Image analysis failed: ", "pi subprocess failed (", "1", "): ",
                               "Operation aborted">>

\* The command was called
CommandCall(i) == request[i].kind = "command"

ErrorNotifications(i) ==
    {k \in 1..Len(notifications[i]) : notifications[i][k].type = "error"}

\* C15, as the specification states it: once the user has cancelled the
\* running analysis, the command emits no error notification and does not
\* open the editor, and when it has returned its only notification is
\* 'Cancelled'.
C15_Claim ==
    \A i \in Invocations :
        (CommandCall(i) /\ Saw(i, "abort")) =>
            /\ ErrorNotifications(i) = {}
            /\ editor[i] = <<>>
            /\ pc[i] = "done" => notifications[i] = <<Notification(<<"Cancelled">>, "info")>>

\* C16: without a UI, with a blank argument or with a file that is no
\* image the command returns after one error notification and spawns
\* nothing; the editor is opened at most once, only when the command has
\* returned, exactly when the analysis resolved, and with its text.
C16_GuardsAndEditor ==
    \A i \in Invocations :
        CommandCall(i) =>
            /\ (\/ ~request[i].hasUI
                \/ request[i].args \in {<<>>, <<" ">>, <<"notes", ".", "txt">>}) =>
                  /\ pc[i] = "done"
                  /\ Len(notifications[i]) = 1
                  /\ notifications[i][1].type = "error"
                  /\ notifications[i][1].message =
                        (IF ~request[i].hasUI
                         THEN <<"analyze-image requires interactive mode">>
                         ELSE IF request[i].args = <<"notes", ".", "txt">>
                         THEN <<"Not a supported image file">>
                         ELSE <<"Usage: /analyze-image <path-to-image>">>)
                  /\ spawned[i] = <<>>
                  /\ editor[i] = <<>>
            /\ pc[i] # "done" => editor[i] = <<>>
            /\ pc[i] = "done" =>
                  IF promise[i].state = "resolved"
                  THEN editor[i] = <<[title |-> "Image Analysis", text |-> promise[i].value]>>
                  ELSE editor[i] = <<>>

C16_Witness ==
    \E i \in Invocations :
        /\ CommandCall(i)
        /\ pc[i] = "done"
        /\ promise[i] = Resolved(<<>>)
        /\ editor[i] = <<[title |-> "Image Analysis", text |-> <<>>]>>
        /\ notifications[i] = <<>>

(***************************************************************************)
(* extractTextFromPiOutput, read off the document the text was written     *)
(* from.                                                                   *)
(***************************************************************************)
Init1(seq) == SubSeq(seq, 1, Len(seq) - 1)

\* The index of the last turn that is a record of role assistant, 0 if none
RECURSIVE LastAssistantTurn(_)
LastAssistantTurn(turns) ==
    IF turns = <<>> THEN 0
    ELSE IF "role" \in DOMAIN turns[Len(turns)] /\ turns[Len(turns)].role = "assistant"
    THEN Len(turns)
    ELSE LastAssistantTurn(Init1(turns))

IsNull(v) == "kind" \in DOMAIN v /\ v.kind = "null"

HasTurns(d) == d.kind = "object" /\ "messages" \in DOMAIN d

\* The document has an assistant turn and no null turn after the last one
HasSelectedTurn(d) ==
    /\ HasTurns(d)
    /\ LastAssistantTurn(d.messages) # 0
    /\ \A k \in (LastAssistantTurn(d.messages) + 1)..Len(d.messages) : ~IsNull(d.messages[k])

SelectedTurn(d) == d.messages[LastAssistantTurn(d.messages)]

\* The selected turn has a content and no segment of it is null
HasSegments(d) ==
    /\ HasSelectedTurn(d)
    /\ "content" \in DOMAIN SelectedTurn(d)
    /\ \A k \in 1..Len(SelectedTurn(d).content) : ~IsNull(SelectedTurn(d).content[k])

\* The payloads of the segments of kind text, in order, the empty text for
\* a segment without payload
RECURSIVE Payloads(_)
Payloads(segments) ==
    IF segments = <<>> THEN <<>>
    ELSE LET c == segments[Len(segments)]
         IN IF "type" \in DOMAIN c /\ c.type = "text"
            THEN Append(Payloads(Init1(segments)), IF "text" \in DOMAIN c THEN c.text ELSE <<>>)
            ELSE Payloads(Init1(segments))

RECURSIVE NewlineJoined(_)
NewlineJoined(texts) ==
    IF texts = <<>> THEN <<>>
    ELSE IF Len(texts) = 1 THEN texts[1]
    ELSE NewlineJoined(Init1(texts)) \o <<"\n">> \o texts[Len(texts)]

Newlines(text) == Cardinality({k \in 1..Len(text) : text[k] = "\n"})

\* C17: the extractor returns its input unchanged for every text that is
\* no JSON document, for a parsed value that is no record or has no turns,
\* for an empty sequence of turns and for turns none of which is an
\* assistant turn (turns that are null or a number included).
C17_FallbackToRaw ==
    (extracted.done /\ (~HasTurns(input.doc) \/ LastAssistantTurn(input.doc.messages) = 0))
        => extracted.text = input.raw

C17_Witness ==
    /\ extracted.done
    /\ HasTurns(input.doc)
    /\ input.doc.messages = <<User(<<TextBlock(<<"mid">>)>>), JsonNull>>
    /\ input.raw = Stringify(input.doc)
    /\ extracted.text = input.raw

\* C18: when the document has an assistant turn with a content, the
\* result is the text of the last such turn alone, whatever the turns
\* before and after it are.
C18_LastAssistantWins ==
    (extracted.done /\ HasSegments(input.doc))
        => extracted.text = NewlineJoined(Payloads(SelectedTurn(input.doc).content))

C18_Witness ==
    /\ extracted.done
    /\ HasTurns(input.doc)
    /\ input.doc.messages = <<Assistant(<<TextBlock(<<"first">>)>>),
                              Assistant(<<TextBlock(<<"X">>), ImageBlock, TextBlock(<<"Y">>)>>),
                              User(<<TextBlock(<<"mid">>)>>)>>
    /\ extracted.text = <<"X", "\n", "Y">>

\* C19, as the specification states it: when the last assistant turn has no
\* content or an empty content, the result is the input unchanged.
C19_Claim ==
    (/\ extracted.done
     /\ HasSelectedTurn(input.doc)
     /\ \/ "content" \notin DOMAIN SelectedTurn(input.doc)
        \/ SelectedTurn(input.doc).content = <<>>)
        => extracted.text = input.raw

\* C20: for a selected turn with segments the result is the payloads of
\* the text segments in order, joined by one newline each: a text segment
\* without payload holds its place with the empty text, other segments
\* leave nothing, so n text segments give n - 1 newlines around the
\* payloads, and the result is empty when there is no text segment or one
\* empty one.
C20_JoinedTextSegments ==
    (extracted.done /\ HasSegments(input.doc) /\ SelectedTurn(input.doc).content # <<>>)
        => LET texts == Payloads(SelectedTurn(input.doc).content)
           IN /\ extracted.text = NewlineJoined(texts)
              /\ Len(texts) >= 1 =>
                    Newlines(extracted.text) = Len(texts) - 1 + Newlines(Concat(texts))
              /\ (Len(texts) = 0 \/ texts = <<(<<>>)>>) => extracted.text = <<>>

C20_Witness ==
    /\ extracted.done
    /\ HasSegments(input.doc)
    /\ SelectedTurn(input.doc).content = <<[type |-> "text"], ImageBlock, TextBlock(<<"X">>)>>
    /\ extracted.text = <<"\n", "X">>

\* C20, as the specification states it: the result is moreover the empty
\* text whenever every text segment is empty.
C20_Claim ==
    (extracted.done /\ HasSegments(input.doc) /\ SelectedTurn(input.doc).content # <<>>)
        => LET texts == Payloads(SelectedTurn(input.doc).content)
           IN /\ extracted.text = NewlineJoined(texts)
              /\ (\A k \in 1..Len(texts) : texts[k] = <<>>) => extracted.text = <<>>

(***************************************************************************)
(* The two predicates of the interception decision.                        *)
(***************************************************************************)
\* The path has a "." and what follows its final "." is, lower-cased, one
\* of the five extensions
HasImageExtension(p) ==
    \E k \in 1..Len(p) :
        /\ p[k] = "."
        /\ \A j \in (k + 1)..Len(p) : p[j] # "."
        /\ Len(p) = k + 1
        /\ p[k + 1] \in {"jpg", "jpeg", "png", "gif", "webp", "PNG", "Png", "JpG"}

\* C21, as the specification states it: isImageFile holds exactly for the
\* paths with a "." whose text after the final "." is, lower-cased, one of
\* jpg, jpeg, png, gif and webp; it is false for a path without "." and
\* for the empty path.
C21_Claim ==
    (answer.done /\ query.kind = "path") =>
        /\ answer.value <=> HasImageExtension(query.path)
        /\ (\A k \in 1..Len(query.path) : query.path[k] # ".") => ~answer.value

\* C22: needsVisionProxy holds exactly for glm-4.6, glm-4.7 and
\* glm-4.7-flash: not for an absent id, not for the vision model, not for
\* an id that extends a listed one.
C22_ExactlyListedModels ==
    (answer.done /\ query.kind = "model") =>
        /\ answer.value <=> query.modelId \in {"glm-4.6", "glm-4.7", "glm-4.7-flash"}
        /\ query.modelId \in {Absent, "glm-4.6v", "glm-4.7-long", "glm-4.7-flash-lite"}
              => ~answer.value

C22_Witness ==
    /\ answer.done
    /\ query = [kind |-> "model", modelId |-> Absent]
    /\ ~answer.value

\* C23, as the documentation states it: with glm-4.7 or glm-4.7-long as
\* the model, a read of an image file spawns the analysis and does not call
\* the original read tool.
C23_Claim ==
    \A i \in Invocations :
        (/\ ToolCall(i)
         /\ request[i].modelId \in {"glm-4.7", "glm-4.7-long"}
         /\ request[i].path \in {<<"a", ".", "jpg">>, <<"/", "tmp", "/", "shot", ".", "PNG">>})
            => Len(spawned[i]) = 1 /\ reads[i] = <<>>

\* C25, as the specification states it: when the analysis of the command
\* failed at launch or by its exit code, the command has, once it returned,
\* notified exactly once, with severity error and the failure as message,
\* not 'Cancelled', and has not opened the editor.
C25_Claim ==
    \A i \in Invocations :
        (/\ CommandCall(i)
         /\ pc[i] = "done"
         /\ promise[i].state = "rejected"
         /\ ~Saw(i, "abort"))
            => /\ notifications[i] =
                     <<Notification(<<"Analysis failed: ">> \o promise[i].value, "error")>>
               /\ editor[i] = <<>>

\* C26, as the specification states it: whenever the promise of
\* analyzeImage is settled, the subprocess has ended or never started.
C26_Claim ==
    \A i \in Invocations :
        Settled(i) => child[i].status \in {"exited", "closed", "spawnfail", "errored"}

\* C27: child.kill is called at most once per invocation, in the step in
\* which the invocation's signal becomes aborted, and never once the close
\* event has been handled.
C27_KillOnceBeforeClose ==
    [][\A i \in Invocations :
          kills'[i] # kills[i] =>
              /\ kills[i] = 0
              /\ kills'[i] = 1
              /\ signal[i].present
              /\ ~signal[i].aborted
              /\ signal'[i].aborted
              /\ ~Saw(i, "close")]_vars

C27_Witness ==
    \E i \in Invocations :
        /\ observed[i] = <<"close">>
        /\ signal[i].present
        /\ signal[i].aborted
        /\ kills[i] = 0

\* All that belongs to one invocation of analyzeImage
Slot(i) ==
    <<signal[i], child[i], stdout[i], stderr[i], promise[i], spawned[i], received[i],
      observed[i], kills[i]>>

\* The rejection messages an invocation's own events allow
OwnRejections(i) ==
    { <<"Operation aborted">>, <<"spawn pi ENOENT">>,
      <<"pi subprocess failed (", child[i].code, "): ">> \o Concat(received[i].err) }

\* C24: of two invocations with signals of their own each spawns its own
\* subprocess; its buffers hold what its own subprocess wrote, its promise
\* is settled from its own output, exit code and signal, its subprocess is
\* killed only when its own signal is aborted; and no step, an abort
\* included, changes anything of both invocations.
C24_Isolated ==
    /\ [](\A i \in ConcurrentCalls :
            /\ Len(spawned[i]) <= 1
            /\ pc[i] # "idle" =>
                  spawned[i] = <<SpawnArgs(Resolve(Cwd, ConcurrentCall(i).path))>>
            /\ stdout[i] = Concat(received[i].out)
            /\ stderr[i] = Concat(received[i].err)
            /\ \A k \in 1..Len(stdout[i]) : stdout[i][k] = ConcurrentChunk(i)[1]
            /\ kills[i] <= 1
            /\ (kills[i] = 1 \/ child[i].killed) => signal[i].aborted
            /\ promise[i].state = "resolved" =>
                  /\ child[i].code = "0"
                  /\ promise[i].value = Concat(received[i].out)
            /\ promise[i].state = "rejected" =>
                  /\ promise[i].value \in OwnRejections(i)
                  /\ promise[i].value = <<"Operation aborted">> <=> First(i, "abort"))
    /\ [][\A i, j \in ConcurrentCalls :
             (i # j /\ Slot(i)' # Slot(i)) => Slot(j)' = Slot(j)]_vars

C24_Witness ==
    /\ DOMAIN promise = ConcurrentCalls
    /\ promise["first"] = Rejected(<<"Operation aborted">>)
    /\ kills["first"] = 1
    /\ child["first"].killed
    /\ promise["second"] = Resolved(<<"two", "two">>)
    /\ kills["second"] = 0
    /\ ~child["second"].killed
    /\ ~signal["second"].aborted

=========================================================================
